---- MODULE Spec2Model ----
(***************************************************************************)
(* Emotion-Driven Code Generator: the emotion detection chain              *)
(* (transformer -> TextBlob -> lexicon) of emotion_code_project.py and     *)
(* the template lookups that consume its label.                            *)
(*                                                                         *)
(* A text is a sequence of one-character strings.  Emotion labels, which   *)
(* are only compared for equality, are TLA+ strings.                       *)
(***************************************************************************)
EXTENDS Integers, Sequences, FiniteSets, TLC

VARIABLES
    pc,                     \* position of the process: module import steps, then "ready"
    USE_TRANSFORMERS,       \* module global, emotion_code_project.py:58
    transformer_pipeline,   \* module global _transformer_pipeline, :59
    HAVE_TEXTBLOB,          \* module global _HAVE_TEXTBLOB, :79/:81
    call,                   \* record of the detect_emotion call that just returned
    detected_emotion,       \* EDCGApp.detected_emotion, None while the attribute is unset
    lookup,                 \* record of the last template lookup
    modelMemo,              \* what the loaded model answered, per input, so far
    blobMemo,               \* what the sentiment analyzer answered, per input, so far
    history,                \* text and result of the detect_emotion calls so far
    sentiment,              \* the sentiment handed to the TextBlob strategy on its own
    heurRet,                \* what the TextBlob strategy returned for it
    lexText,                \* the text handed to the lexicon strategy on its own
    lexRet,                 \* what the lexicon strategy returned for it
    workers                 \* the worker threads of on_detect: position, text, result

globalVars == <<USE_TRANSFORMERS, transformer_pipeline, HAVE_TEXTBLOB>>
memoVars   == <<modelMemo, blobMemo, history>>
unitVars   == <<sentiment, heurRet, lexText, lexRet>>

vars == <<pc, globalVars, call, detected_emotion, lookup, memoVars, unitVars, workers>>

----------------------------------------------------------------------------
(* Python values *)

None == "None"          \* Python's None
Raised == "raised"      \* an exception leaves the function
NoArg == <<"<", "not called", ">">>   \* marks a strategy that was not handed a text

Labels == {"happy", "sad", "angry", "fear", "surprise", "neutral"}

Min(a, b) == IF a < b THEN a ELSE b

----------------------------------------------------------------------------
(* str methods used by the detector *)

UpperCase == <<"A","B","C","D","E","F","G","H","I","J","K","L","M",
               "N","O","P","Q","R","S","T","U","V","W","X","Y","Z">>
LowerCase == <<"a","b","c","d","e","f","g","h","i","j","k","l","m",
               "n","o","p","q","r","s","t","u","v","w","x","y","z">>

UpperSet == {UpperCase[i] : i \in 1..Len(UpperCase)}
LowerOf == [c \in UpperSet |-> LowerCase[CHOOSE i \in 1..Len(UpperCase) : UpperCase[i] = c]]

\* str.lower() on one character
LowerChar(c) == IF c \in UpperSet THEN LowerOf[c] ELSE c

\* str.lower(); SubSeq makes the result a sequence value
Lower(text) == SubSeq([i \in 1..Len(text) |-> LowerChar(text[i])], 1, Len(text))

\* the characters str.strip() removes
Whitespace == {" ", "\t", "\n", "\r"}

\* str.strip(): drop the leading and the trailing whitespace
Strip(text) ==
    IF \A i \in 1..Len(text) : text[i] \in Whitespace THEN <<>>
    ELSE LET first == CHOOSE i \in 1..Len(text) :
                          /\ text[i] \notin Whitespace
                          /\ \A j \in 1..(i - 1) : text[j] \in Whitespace
             last  == CHOOSE i \in 1..Len(text) :
                          /\ text[i] \notin Whitespace
                          /\ \A j \in (i + 1)..Len(text) : text[j] \in Whitespace
         IN  SubSeq(text, first, last)

\* text[:n]
Take(text, n) == SubSeq(text, 1, Min(Len(text), n))

\* w occurs in txt at position i
MatchAt(txt, w, i) ==
    /\ i + Len(w) - 1 <= Len(txt)
    /\ \A j \in 1..Len(w) : txt[i + j - 1] = w[j]

\* w in txt
Contains(txt, w) == \E i \in 1..Len(txt) : MatchAt(txt, w, i)

\* txt.count(w): occurrences found scanning left to right, the scan resuming
\* after the end of each occurrence found
RECURSIVE CountFrom(_, _, _)
CountFrom(txt, w, i) ==
    IF \A j \in i..Len(txt) : ~MatchAt(txt, w, j) THEN 0
    ELSE LET found == CHOOSE j \in i..Len(txt) :
                          /\ MatchAt(txt, w, j)
                          /\ \A k \in i..(j - 1) : ~MatchAt(txt, w, k)
         IN  1 + CountFrom(txt, w, found + Len(w))

StrCount(txt, w) == CountFrom(txt, w, 1)

----------------------------------------------------------------------------
(* Lexicon strategy *)

\* the keys of _SIMPLE_LEXICON in insertion order
LexiconKeys == <<"happy", "sad", "angry", "fear", "surprise", "neutral">>

_SIMPLE_LEXICON == [
    happy |-> <<
        <<"h","a","p","p","y">>,
        <<"j","o","y">>,
        <<"g","l","a","d">>,
        <<"e","x","c","i","t","e","d">>,
        <<"e","l","a","t","e","d">>,
        <<"a","m","a","z","i","n","g">>,
        <<"g","r","e","a","t">>,
        <<"f","a","n","t","a","s","t","i","c">>,
        <<"l","o","v","e">>,
        <<"y","a","y">>
    >>,
    sad |-> <<
        <<"s","a","d">>,
        <<"d","o","w","n">>,
        <<"u","n","h","a","p","p","y">>,
        <<"d","e","p","r","e","s","s","e","d">>,
        <<"s","o","r","r","o","w">>,
        <<"t","e","a","r","s">>
    >>,
    angry |-> <<
        <<"a","n","g","r","y">>,
        <<"m","a","d">>,
        <<"f","u","r","i","o","u","s">>,
        <<"i","r","r","i","t","a","t","e","d">>,
        <<"a","n","n","o","y","e","d">>,
        <<"h","a","t","e">>
    >>,
    fear |-> <<
        <<"s","c","a","r","e","d">>,
        <<"a","f","r","a","i","d">>,
        <<"f","e","a","r">>,
        <<"t","e","r","r","i","f","i","e","d">>,
        <<"a","n","x","i","o","u","s">>,
        <<"n","e","r","v","o","u","s">>
    >>,
    surprise |-> <<
        <<"s","u","r","p","r","i","s","e","d">>,
        <<"s","h","o","c","k","e","d">>,
        <<"w","o","w">>,
        <<"u","n","e","x","p","e","c","t","e","d">>
    >>,
    neutral |-> <<
        <<"o","k","a","y">>,
        <<"f","i","n","e">>,
        <<"n","e","u","t","r","a","l">>,
        <<"n","o","r","m","a","l">>
    >>
]

\* scores[k] after the two loops: for each word w of the label,
\* "if w in txt: scores[k] += txt.count(w)"
RECURSIVE SumCounts(_, _, _)
SumCounts(txt, words, n) ==
    IF n = 0 THEN 0
    ELSE SumCounts(txt, words, n - 1)
         + (IF Contains(txt, words[n]) THEN StrCount(txt, words[n]) ELSE 0)

LexiconScore(txt, k) == SumCounts(txt, _SIMPLE_LEXICON[k], Len(_SIMPLE_LEXICON[k]))

\* variant: among equal scores the last key wins
RECURSIVE MaxKey_last_wins(_, _, _)
MaxKey_last_wins(scores, n, best) ==
    IF n > Len(LexiconKeys) THEN best
    ELSE MaxKey_last_wins(scores, n + 1,
                IF scores[LexiconKeys[n]] >= scores[best] THEN LexiconKeys[n] ELSE best)

\* max(scores, key=...) : the first key, in insertion order, of maximal score
RECURSIVE MaxKey(_, _, _)
MaxKey(scores, n, best) ==
    IF n > Len(LexiconKeys) THEN best
    ELSE MaxKey(scores, n + 1,
                IF scores[LexiconKeys[n]] > scores[best] THEN LexiconKeys[n] ELSE best)

lexicon_emotion(text) ==
    LET txt    == Lower(text)
        scores == [k \in Labels |-> LexiconScore(txt, k)]
        best   == MaxKey(scores, 2, LexiconKeys[1])
    IN  IF scores[best] = 0 THEN "neutral" ELSE best

----------------------------------------------------------------------------
(* TextBlob strategy *)

\* What TextBlob(text).sentiment yields: polarity and subjectivity in
\* hundredths (polarity -100..100 for -1.0..1.0, subjectivity 0..100), or an
\* exception raised inside the try block.
BlobFault == [kind |-> "fault", p |-> 0, s |-> 0]
BlobOk(p, s) == [kind |-> "ok", p |-> p, s |-> s]
NoBlob == [kind |-> "absent", p |-> 0, s |-> 0]     \* textblob is not installed

Abs(x) == IF x < 0 THEN -x ELSE x

\* variant: the body is not wrapped in try/except
textblob_sentiment_emotion_uncaught(text, have_textblob, bOut) ==
    IF ~have_textblob THEN [ret |-> None, arg |-> NoArg]
    ELSE IF bOut.kind # "ok" THEN [ret |-> Raised, arg |-> text]
    ELSE LET p == bOut.p
             s == bOut.s
         IN  [arg |-> text,
              ret |-> IF p > 40 THEN "happy"
                      ELSE IF p < -30 THEN "sad"
                      ELSE IF s > 70 /\ Abs(p) < 10 THEN "angry"
                      ELSE "neutral"]

\* variant: the happy threshold is inclusive
textblob_sentiment_emotion_inclusive(text, have_textblob, bOut) ==
    IF ~have_textblob THEN [ret |-> None, arg |-> NoArg]
    ELSE IF bOut.kind # "ok" THEN [ret |-> None, arg |-> text]
    ELSE LET p == bOut.p
             s == bOut.s
         IN  [arg |-> text,
              ret |-> IF p >= 40 THEN "happy"
                      ELSE IF p < -30 THEN "sad"
                      ELSE IF s > 70 /\ Abs(p) < 10 THEN "angry"
                      ELSE "neutral"]

textblob_sentiment_emotion(text, have_textblob, bOut) ==
    IF ~have_textblob THEN [ret |-> None, arg |-> NoArg]
    ELSE IF bOut.kind # "ok" THEN [ret |-> None, arg |-> text]       \* except Exception
    ELSE LET p == bOut.p
             s == bOut.s
         IN  [arg |-> text,
              ret |-> IF p > 40 THEN "happy"
                      ELSE IF p < -30 THEN "sad"
                      ELSE IF s > 70 /\ Abs(p) < 10 THEN "angry"
                      ELSE "neutral"]

----------------------------------------------------------------------------
(* Transformer strategy *)

\* What _transformer_pipeline(text[:512]) yields:
\*   fault    an exception raised inside the try block
\*   notlist  a value that is not a list
\*   nested   a non-empty list whose first element is itself a list
\*   list     a list of dicts {label, score}, ranked by decreasing score;
\*            out holds its elements, scores in hundredths
ModelOut(kind, out) == [kind |-> kind, out |-> out]
Scored(label, score) == [label |-> label, score |-> score]
NoModel == ModelOut("absent", <<>>)                  \* no pipeline was loaded

MaxModelChars == 512

\* variant: the label is not lower-cased and 'love' is not mapped
NormalizeLabel_raw_case(raw) ==
    LET label == raw
    IN  IF Contains(label, <<"j","o","y">>) \/ Contains(label, <<"h","a","p","p","y">>)
        THEN "happy"
        ELSE IF Contains(label, <<"s","a","d">>) THEN "sad"
        ELSE IF Contains(label, <<"a","n","g","e","r">>)
                \/ Contains(label, <<"a","n","g","r","y">>) THEN "angry"
        ELSE IF Contains(label, <<"f","e","a","r">>) THEN "fear"
        ELSE IF Contains(label, <<"s","u","r","p","r","i","s","e">>) THEN "surprise"
        ELSE "neutral"

\* the chain of "if ... in label" tests applied to the lower-cased label
NormalizeLabel(raw) ==
    LET label == Lower(raw)
    IN  IF Contains(label, <<"j","o","y">>) \/ Contains(label, <<"h","a","p","p","y">>)
        THEN "happy"
        ELSE IF Contains(label, <<"s","a","d">>) THEN "sad"
        ELSE IF Contains(label, <<"a","n","g","e","r">>)
                \/ Contains(label, <<"a","n","g","r","y">>) THEN "angry"
        ELSE IF Contains(label, <<"f","e","a","r">>) THEN "fear"
        ELSE IF Contains(label, <<"s","u","r","p","r","i","s","e">>) THEN "surprise"
        ELSE IF Contains(label, <<"l","o","v","e">>) THEN "happy"
        ELSE "neutral"

\* variant: an exception of the pipeline is not caught
transformer_emotion_uncaught(text, use_transformers, pipeline, mOut) ==
    IF ~use_transformers \/ pipeline = None THEN [ret |-> None, arg |-> NoArg]
    ELSE LET arg == Take(text, MaxModelChars)
         IN  IF mOut.kind \in {"fault", "nested"}
             THEN [ret |-> Raised, arg |-> arg]
             ELSE IF mOut.kind = "list" /\ Len(mOut.out) > 0
             THEN [ret |-> NormalizeLabel(mOut.out[1].label), arg |-> arg]
             ELSE [ret |-> None, arg |-> arg]

\* variant: the whole text is handed to the pipeline
transformer_emotion_untruncated(text, use_transformers, pipeline, mOut) ==
    IF ~use_transformers \/ pipeline = None THEN [ret |-> None, arg |-> NoArg]
    ELSE LET arg == text
         IN  IF mOut.kind \in {"fault", "nested"}
             THEN [ret |-> None, arg |-> arg]
             ELSE IF mOut.kind = "list" /\ Len(mOut.out) > 0
             THEN [ret |-> NormalizeLabel(mOut.out[1].label), arg |-> arg]
             ELSE [ret |-> None, arg |-> arg]

transformer_emotion(text, use_transformers, pipeline, mOut) ==
    IF ~use_transformers \/ pipeline = None THEN [ret |-> None, arg |-> NoArg]
    ELSE LET arg == Take(text, MaxModelChars)
         IN  IF mOut.kind = "fault"
             THEN [ret |-> None, arg |-> arg]            \* except Exception: return None
             ELSE IF mOut.kind = "nested"
             THEN [ret |-> None, arg |-> arg]            \* out[0]['label'] raises TypeError
             ELSE IF mOut.kind = "list" /\ Len(mOut.out) > 0
             THEN [ret |-> NormalizeLabel(mOut.out[1].label), arg |-> arg]
             ELSE [ret |-> None, arg |-> arg]            \* falls off the end of the function

----------------------------------------------------------------------------
(* The chain *)

Globals(use_transformers, pipeline, have_textblob) ==
    [USE_TRANSFORMERS |-> use_transformers,
     transformer_pipeline |-> pipeline,
     HAVE_TEXTBLOB |-> have_textblob]

\* the record of a call that has not touched any strategy
BlankCall(text, g) ==
    [text |-> text, result |-> None, invoked |-> <<>>,
     modelArg |-> NoArg, heurArg |-> NoArg, lexArg |-> NoArg,
     modelRet |-> None, heurRet |-> None, lexRet |-> None,
     mOut |-> NoModel, bOut |-> NoBlob, globals |-> g]

\* no call has returned
NoCall == BlankCall(<<>>, Globals(FALSE, None, FALSE))

\* variant: a neutral answer of TextBlob counts as no answer
RunChain_neutral_falls_through(text, g, mOut, bOut) ==
    LET t  == Strip(text)
        m  == transformer_emotion(t, g.USE_TRANSFORMERS, g.transformer_pipeline, mOut)
        h  == textblob_sentiment_emotion(t, g.HAVE_TEXTBLOB, bOut)
        c0 == BlankCall(text, g)
        c1 == IF g.USE_TRANSFORMERS
              THEN [c0 EXCEPT !.invoked = <<"transformer_emotion">>,
                              !.modelArg = m.arg, !.modelRet = m.ret,
                              !.mOut = IF m.arg = NoArg THEN NoModel ELSE mOut]
              ELSE c0
    IN  IF g.USE_TRANSFORMERS /\ m.ret # None THEN [c1 EXCEPT !.result = m.ret]
        ELSE
        LET c2 == IF g.HAVE_TEXTBLOB
                  THEN [c1 EXCEPT !.invoked = Append(c1.invoked, "textblob_sentiment_emotion"),
                                  !.heurArg = h.arg, !.heurRet = h.ret, !.bOut = bOut]
                  ELSE c1
        IN  IF g.HAVE_TEXTBLOB /\ h.ret \notin {None, "neutral"} THEN [c2 EXCEPT !.result = h.ret]
            ELSE LET l == lexicon_emotion(t)
                 IN  [c2 EXCEPT !.invoked = Append(c2.invoked, "lexicon_emotion"),
                                !.lexArg = t, !.lexRet = l, !.result = l]

\* the strategy calls of detect_emotion, reached when the text is not blank:
\* "text = text.strip()", then transformer, TextBlob, lexicon, each guarded by
\* its flag, the first label returned
RunChain(text, g, mOut, bOut) ==
    LET t  == Strip(text)
        m  == transformer_emotion(t, g.USE_TRANSFORMERS, g.transformer_pipeline, mOut)
        h  == textblob_sentiment_emotion(t, g.HAVE_TEXTBLOB, bOut)
        c0 == BlankCall(text, g)
        c1 == IF g.USE_TRANSFORMERS
              THEN [c0 EXCEPT !.invoked = <<"transformer_emotion">>,
                              !.modelArg = m.arg, !.modelRet = m.ret,
                              !.mOut = IF m.arg = NoArg THEN NoModel ELSE mOut]
              ELSE c0
    IN  IF g.USE_TRANSFORMERS /\ m.ret = Raised THEN [c1 EXCEPT !.result = Raised]
        ELSE IF g.USE_TRANSFORMERS /\ m.ret # None THEN [c1 EXCEPT !.result = m.ret]
        ELSE
        LET c2 == IF g.HAVE_TEXTBLOB
                  THEN [c1 EXCEPT !.invoked = Append(c1.invoked, "textblob_sentiment_emotion"),
                                  !.heurArg = h.arg, !.heurRet = h.ret, !.bOut = bOut]
                  ELSE c1
        IN  IF g.HAVE_TEXTBLOB /\ h.ret = Raised THEN [c2 EXCEPT !.result = Raised]
            ELSE IF g.HAVE_TEXTBLOB /\ h.ret # None THEN [c2 EXCEPT !.result = h.ret]
            ELSE LET l == lexicon_emotion(t)
                 IN  [c2 EXCEPT !.invoked = Append(c2.invoked, "lexicon_emotion"),
                                !.lexArg = t, !.lexRet = l, !.result = l]

\* variant: the blank-text test is missing
detect_emotion_unguarded(text, g, mOut, bOut) == RunChain(text, g, mOut, bOut)

\* variant: TextBlob is asked before the transformer
detect_emotion_textblob_first(text, g, mOut, bOut) ==
    IF text = <<>> \/ Strip(text) = <<>>
    THEN [BlankCall(text, g) EXCEPT !.result = "neutral"]
    ELSE
    LET t  == Strip(text)
        m  == transformer_emotion(t, g.USE_TRANSFORMERS, g.transformer_pipeline, mOut)
        h  == textblob_sentiment_emotion(t, g.HAVE_TEXTBLOB, bOut)
        c0 == BlankCall(text, g)
        c1 == IF g.HAVE_TEXTBLOB
              THEN [c0 EXCEPT !.invoked = <<"textblob_sentiment_emotion">>,
                              !.heurArg = h.arg, !.heurRet = h.ret, !.bOut = bOut]
              ELSE c0
    IN  IF g.HAVE_TEXTBLOB /\ h.ret # None THEN [c1 EXCEPT !.result = h.ret]
        ELSE
        LET c2 == IF g.USE_TRANSFORMERS
                  THEN [c1 EXCEPT !.invoked = Append(c1.invoked, "transformer_emotion"),
                                  !.modelArg = m.arg, !.modelRet = m.ret, !.mOut = mOut]
                  ELSE c1
        IN  IF g.USE_TRANSFORMERS /\ m.ret # None THEN [c2 EXCEPT !.result = m.ret]
            ELSE LET l == lexicon_emotion(t)
                 IN  [c2 EXCEPT !.invoked = Append(c2.invoked, "lexicon_emotion"),
                                !.lexArg = t, !.lexRet = l, !.result = l]

\* variant: a call in which the pipeline raised switches the transformer off
detect_emotion_disables_after_fault(text, g, mOut, bOut) ==
    IF text = <<>> \/ Strip(text) = <<>>
    THEN [BlankCall(text, g) EXCEPT !.result = "neutral"]
    ELSE LET c == RunChain(text, g, mOut, bOut)
         IN  IF c.mOut.kind = "fault"
             THEN [c EXCEPT !.globals = Globals(FALSE, None, g.HAVE_TEXTBLOB)]
             ELSE c

\* detect_emotion(text) run with the module globals g; mOut and bOut are what
\* the model and the sentiment analyzer answer if they are asked.  The value is
\* the record of the call: its result (a label, or Raised when an exception
\* leaves the function), the strategies it invoked in order, the text each one
\* was handed, what each returned, and the module globals when it returns.
detect_emotion(text, g, mOut, bOut) ==
    IF text = <<>> \/ Strip(text) = <<>>
    THEN [BlankCall(text, g) EXCEPT !.result = "neutral"]
    ELSE RunChain(text, g, mOut, bOut)

----------------------------------------------------------------------------
(* Inputs *)

\* raw category names a text-classification model may report: those of the
\* two models the startup probe tries, and names outside the mapping
RawLabels == {
    <<"j","o","y">>, <<"s","a","d","n","e","s","s">>, <<"a","n","g","e","r">>,
    <<"f","e","a","r">>, <<"s","u","r","p","r","i","s","e">>, <<"l","o","v","e">>,
    <<"d","i","s","g","u","s","t">>, <<"n","e","u","t","r","a","l">>,
    <<"H","a","p","p","y">>, <<"J","O","Y">>, <<"L","A","B","E","L","_","0">> }

ModelOutputs ==
    {ModelOut(k, <<>>) : k \in {"fault", "notlist", "nested", "list"}}
    \cup {ModelOut("list", <<Scored(l, 90)>>) : l \in RawLabels}
    \cup {ModelOut("list", <<Scored(<<"s","a","d","n","e","s","s">>, 60),
                             Scored(<<"j","o","y">>, 30),
                             Scored(<<"f","e","a","r">>, 10)>>),
          ModelOut("list", <<Scored(<<"L","A","B","E","L","_","0">>, 40),
                             Scored(<<"j","o","y">>, 35),
                             Scored(<<"a","n","g","e","r">>, 25)>>)}

\* sentiment values the analyzer may report to a call of the chain
BlobOutputs ==
    {BlobFault, BlobOk(50, 60), BlobOk(-50, 60), BlobOk(0, 90), BlobOk(0, 20)}

Pad(n) == [i \in 1..n |-> "x"]

\* a text one character longer than the model's window once "sad" is appended
LongText == Pad(MaxModelChars - 2) \o <<"s","a","d">>

ChainTexts == {
    <<>>,
    <<" "," "," ">>,
    <<"\t","\n">>,
    <<"x">>,
    <<"s","a","d">>,
    <<" ","s","a","d"," ">>,
    <<"G","l","a","d"," ","y","a","y">>,
    <<"w","o","w">>,
    <<"s","c","a","r","e","d">>,
    LongText,
    <<" ">> \o LongText }

----------------------------------------------------------------------------
(* The process *)

Pending == "pending"    \* a strategy run on its own has not returned yet

MaxWorkers == 2

\* a worker slot with no thread in it
IdleWorker == [pc |-> "idle", text |-> <<>>, result |-> None]

\* no worker thread has been started
NoWorkers == [w \in 1..MaxWorkers |-> IdleWorker]

\* no template lookup has been made
NoLookup == [fn |-> "none", emotion |-> "", title |-> None, code |-> <<>>]

Init ==
    /\ pc = "probe_transformers"
    /\ USE_TRANSFORMERS = FALSE
    /\ transformer_pipeline = None
    /\ HAVE_TEXTBLOB = FALSE
    /\ call = NoCall
    /\ detected_emotion = None
    /\ lookup = NoLookup
    /\ modelMemo = {}
    /\ blobMemo = {}
    /\ history = <<>>
    /\ sentiment = NoBlob
    /\ heurRet = Pending
    /\ lexText = <<>>
    /\ lexRet = Pending
    /\ workers = NoWorkers

\* module import, "Optional ML deps": import transformers, then try the
\* j-hartmann model, then the bhadresh-savani model
ProbeTransformers ==
    /\ pc = "probe_transformers"
    /\ \E outcome \in {"import_fails", "first_loads", "second_loads", "none_loads"} :
          /\ transformer_pipeline' =
                 CASE outcome = "first_loads"  -> "j-hartmann/emotion-english-distilroberta-base"
                   [] outcome = "second_loads" -> "bhadresh-savani/distilbert-base-uncased-emotion"
                   [] OTHER -> None
          /\ USE_TRANSFORMERS' = (outcome \in {"first_loads", "second_loads"})
    /\ pc' = "probe_textblob"
    /\ UNCHANGED <<HAVE_TEXTBLOB, call, detected_emotion, lookup, memoVars, unitVars, workers>>

\* module import, "TextBlob fallback"
ProbeTextBlob ==
    /\ pc = "probe_textblob"
    /\ \E ok \in BOOLEAN : HAVE_TEXTBLOB' = ok
    /\ pc' = "ready"
    /\ UNCHANGED <<USE_TRANSFORMERS, transformer_pipeline, call, detected_emotion,
                   lookup, memoVars, unitVars, workers>>

CurrentGlobals == Globals(USE_TRANSFORMERS, transformer_pipeline, HAVE_TEXTBLOB)

\* the module globals after a call are those the call left
SetGlobals(g) ==
    /\ USE_TRANSFORMERS' = g.USE_TRANSFORMERS
    /\ transformer_pipeline' = g.transformer_pipeline
    /\ HAVE_TEXTBLOB' = g.HAVE_TEXTBLOB

\* one call detect_emotion(text), as the worker thread of on_detect or any
\* other caller of the unified API makes it; the libraries that are loaded
\* answer anything
Call ==
    /\ pc = "ready"
    /\ \E text \in ChainTexts :
       \E mOut \in (IF USE_TRANSFORMERS THEN ModelOutputs ELSE {NoModel}) :
       \E bOut \in (IF HAVE_TEXTBLOB THEN BlobOutputs ELSE {NoBlob}) :
          LET c == detect_emotion(text, CurrentGlobals, mOut, bOut)
          IN  /\ call' = c
              /\ SetGlobals(c.globals)
    /\ pc' = "returned"
    /\ UNCHANGED <<detected_emotion, lookup, memoVars, unitVars, workers>>

\* the rest of the worker of on_detect: the label is stored and the thread
\* ends; an exception ends the thread without storing anything
WorkerDone ==
    /\ pc = "returned"
    /\ detected_emotion' = IF call.result = Raised THEN detected_emotion ELSE call.result
    /\ call' = NoCall
    /\ pc' = "ready"
    /\ UNCHANGED <<globalVars, lookup, memoVars, unitVars, workers>>

Next == ProbeTransformers \/ ProbeTextBlob \/ Call \/ WorkerDone

Spec == Init /\ [][Next]_vars

----------------------------------------------------------------------------
(* The TextBlob strategy on its own, the analyzer stubbed *)

\* every polarity in [-1, 1] and subjectivity in [0, 1], in hundredths
SentimentGrid == {BlobOk(p, s) : p \in -100..100, s \in 0..100}

InitHeuristic ==
    /\ pc = "heuristic"
    /\ USE_TRANSFORMERS = FALSE
    /\ transformer_pipeline = None
    /\ HAVE_TEXTBLOB \in BOOLEAN
    /\ call = NoCall
    /\ detected_emotion = None
    /\ lookup = NoLookup
    /\ modelMemo = {}
    /\ blobMemo = {}
    /\ history = <<>>
    /\ sentiment \in SentimentGrid \cup {BlobFault}
    /\ heurRet = Pending
    /\ lexText = <<>>
    /\ lexRet = Pending
    /\ workers = NoWorkers

\* textblob_sentiment_emotion(text) with TextBlob(text).sentiment as drawn
ApplyHeuristic ==
    /\ pc = "heuristic"
    /\ heurRet' = textblob_sentiment_emotion(<<"x">>, HAVE_TEXTBLOB, sentiment).ret
    /\ pc' = "heuristic_done"
    /\ UNCHANGED <<globalVars, call, detected_emotion, lookup, memoVars,
                   sentiment, lexText, lexRet, workers>>

NextHeuristic == ApplyHeuristic

SpecHeuristic == InitHeuristic /\ [][NextHeuristic]_vars

----------------------------------------------------------------------------
(* The lexicon strategy on its own *)

MaxFrags == 3

Fragments == {
    <<"s","a","d">>, <<"w","o","w">>, <<"o","w">>, <<"u","n">>,
    <<"h","a","p","p","y">>, <<"G","l","a","d">>, <<"m","a","d">>,
    <<"f","e","a","r">>, <<"f","i","n","e">>, <<" ">> }

\* the texts made of at most n fragments
RECURSIVE FragTexts(_)
FragTexts(n) ==
    IF n = 0 THEN {<<>>}
    ELSE LET shorter == FragTexts(n - 1)
         IN  shorter \cup {t \o f : t \in shorter, f \in Fragments}

LexiconTexts == FragTexts(MaxFrags)

InitLexicon ==
    /\ pc = "lexicon"
    /\ USE_TRANSFORMERS = FALSE
    /\ transformer_pipeline = None
    /\ HAVE_TEXTBLOB = FALSE
    /\ call = NoCall
    /\ detected_emotion = None
    /\ lookup = NoLookup
    /\ modelMemo = {}
    /\ blobMemo = {}
    /\ history = <<>>
    /\ sentiment = NoBlob
    /\ heurRet = Pending
    /\ lexText \in LexiconTexts
    /\ lexRet = Pending
    /\ workers = NoWorkers

\* lexicon_emotion(text)
ApplyLexicon ==
    /\ pc = "lexicon"
    /\ lexRet' = lexicon_emotion(lexText)
    /\ pc' = "lexicon_done"
    /\ UNCHANGED <<globalVars, call, detected_emotion, lookup, memoVars,
                   sentiment, heurRet, lexText, workers>>

NextLexicon == ApplyLexicon

SpecLexicon == InitLexicon /\ [][NextLexicon]_vars

----------------------------------------------------------------------------
(* Repeated calls against libraries that answer as functions of their input *)

MaxCalls == 3

DetTexts == { <<"x">>, <<"s","a","d">>, <<" ","s","a","d">> }

DetModelOutputs == { ModelOut("fault", <<>>), ModelOut("list", <<Scored(<<"j","o","y">>, 90)>>) }

DetBlobOutputs == { BlobFault, BlobOk(0, 90) }

\* one call detect_emotion(text); a library asked again about an input it has
\* seen answers as it did before
Classify ==
    /\ pc = "ready"
    /\ Len(history) < MaxCalls
    /\ \E text \in DetTexts :
       \E mOut \in (IF USE_TRANSFORMERS THEN DetModelOutputs ELSE {NoModel}) :
       \E bOut \in (IF HAVE_TEXTBLOB THEN DetBlobOutputs ELSE {NoBlob}) :
          LET c == detect_emotion(text, CurrentGlobals, mOut, bOut)
              askedModel == c.modelArg # NoArg
              askedBlob  == c.heurArg # NoArg
          IN  /\ askedModel => \A e \in modelMemo : e.arg = c.modelArg => e.out = c.mOut
              /\ askedBlob => \A e \in blobMemo : e.arg = c.heurArg => e.out = c.bOut
              /\ modelMemo' = IF askedModel
                              THEN modelMemo \cup {[arg |-> c.modelArg, out |-> c.mOut]}
                              ELSE modelMemo
              /\ blobMemo' = IF askedBlob
                             THEN blobMemo \cup {[arg |-> c.heurArg, out |-> c.bOut]}
                             ELSE blobMemo
              /\ call' = c
              /\ SetGlobals(c.globals)
              /\ history' = Append(history, [text |-> text, result |-> c.result])
    /\ UNCHANGED <<pc, detected_emotion, lookup, unitVars, workers>>

NextRepeat == ProbeTransformers \/ ProbeTextBlob \/ Classify

SpecRepeat == Init /\ [][NextRepeat]_vars

----------------------------------------------------------------------------
(* Concurrent worker threads of on_detect *)

\* what the text widget may hold when Detect is pressed
WidgetTexts == { <<"s","a","d">>, <<" ","x","\n">> }

\* variant: a call in which the pipeline raised drops the handle
transformer_globals_reset_on_fault(g, mOut) ==
    IF mOut.kind = "fault" THEN Globals(FALSE, None, g.HAVE_TEXTBLOB) ELSE g

\* the module globals after transformer_emotion ran: it declares
\* "global _transformer_pipeline" and assigns to no global
transformer_globals(g, mOut) == g

\* EDCGApp.on_detect: a non-blank input, stripped, is handed to a new thread
OnDetect ==
    /\ pc = "ready"
    /\ \E w \in 1..MaxWorkers, input \in WidgetTexts :
          /\ workers[w].pc = "idle"
          /\ Strip(input) # <<>>
          /\ workers' = [workers EXCEPT ![w] =
                            [pc |-> "enter", text |-> Strip(input), result |-> None]]
    /\ UNCHANGED <<pc, globalVars, call, detected_emotion, lookup, memoVars, unitVars>>

\* detect_emotion, the blank test and "text = text.strip()"
WorkerEnter ==
    /\ \E w \in 1..MaxWorkers :
          /\ workers[w].pc = "enter"
          /\ workers' = [workers EXCEPT ![w] =
                IF workers[w].text = <<>> \/ Strip(workers[w].text) = <<>>
                THEN [@ EXCEPT !.pc = "store", !.result = "neutral"]
                ELSE [@ EXCEPT !.pc = "transformer", !.text = Strip(workers[w].text)]]
    /\ UNCHANGED <<pc, globalVars, call, detected_emotion, lookup, memoVars, unitVars>>

\* detect_emotion, "if USE_TRANSFORMERS: e = transformer_emotion(text) ..."
WorkerTransformer ==
    /\ \E w \in 1..MaxWorkers :
       \E mOut \in (IF USE_TRANSFORMERS THEN DetModelOutputs ELSE {NoModel}) :
          LET m == transformer_emotion(workers[w].text, USE_TRANSFORMERS,
                                       transformer_pipeline, mOut)
          IN  /\ workers[w].pc = "transformer"
              /\ workers' = [workers EXCEPT ![w] =
                    IF ~USE_TRANSFORMERS THEN [@ EXCEPT !.pc = "textblob"]
                    ELSE IF m.ret = Raised THEN IdleWorker
                    ELSE IF m.ret # None THEN [@ EXCEPT !.pc = "store", !.result = m.ret]
                    ELSE [@ EXCEPT !.pc = "textblob"]]
              /\ SetGlobals(IF USE_TRANSFORMERS
                            THEN transformer_globals(CurrentGlobals, mOut)
                            ELSE CurrentGlobals)
    /\ UNCHANGED <<pc, call, detected_emotion, lookup, memoVars, unitVars>>

\* detect_emotion, "if _HAVE_TEXTBLOB: e = textblob_sentiment_emotion(text) ..."
WorkerTextBlob ==
    /\ \E w \in 1..MaxWorkers :
       \E bOut \in (IF HAVE_TEXTBLOB THEN DetBlobOutputs ELSE {NoBlob}) :
          LET h == textblob_sentiment_emotion(workers[w].text, HAVE_TEXTBLOB, bOut)
          IN  /\ workers[w].pc = "textblob"
              /\ workers' = [workers EXCEPT ![w] =
                    IF ~HAVE_TEXTBLOB THEN [@ EXCEPT !.pc = "lexicon"]
                    ELSE IF h.ret = Raised THEN IdleWorker
                    ELSE IF h.ret # None THEN [@ EXCEPT !.pc = "store", !.result = h.ret]
                    ELSE [@ EXCEPT !.pc = "lexicon"]]
    /\ UNCHANGED <<pc, globalVars, call, detected_emotion, lookup, memoVars, unitVars>>

\* detect_emotion, "return lexicon_emotion(text)"
WorkerLexicon ==
    /\ \E w \in 1..MaxWorkers :
          /\ workers[w].pc = "lexicon"
          /\ workers' = [workers EXCEPT ![w] =
                [@ EXCEPT !.pc = "store", !.result = lexicon_emotion(workers[w].text)]]
    /\ UNCHANGED <<pc, globalVars, call, detected_emotion, lookup, memoVars, unitVars>>

\* the worker stores the label and the thread ends
WorkerStore ==
    /\ \E w \in 1..MaxWorkers :
          /\ workers[w].pc = "store"
          /\ detected_emotion' = workers[w].result
          /\ workers' = [workers EXCEPT ![w] = IdleWorker]
    /\ UNCHANGED <<pc, globalVars, call, lookup, memoVars, unitVars>>

NextThreads ==
    \/ ProbeTransformers \/ ProbeTextBlob
    \/ OnDetect \/ WorkerEnter \/ WorkerTransformer \/ WorkerTextBlob
    \/ WorkerLexicon \/ WorkerStore

SpecThreads == Init /\ [][NextThreads]_vars

----------------------------------------------------------------------------
(* Template lookups *)

\* TEMPLATES: title and first line of the code of each entry
TEMPLATES == [
    happy    |-> [title |-> "Mini Game: Guess the Number",
                  code  |-> "# Guess the Number - Feel good mini game"],
    sad      |-> [title |-> "Breathing Exercise (Calm)",
                  code  |-> "# Breathing Exercise - 5 rounds"],
    angry    |-> [title |-> "Punching Bag Simulator (Console)",
                  code  |-> "# Punching Bag - Angry energy outlet (console)"],
    fear     |-> [title |-> "Focus Timer (Pomodoro-lite)",
                  code  |-> "# Focus Timer (25/5) simple"],
    surprise |-> [title |-> "Random Fun Fact (Surprise)",
                  code  |-> "# Random fun facts - small list"],
    neutral  |-> [title |-> "Template: Hello World Script",
                  code  |-> "# Neutral starter"] ]

\* generate_code_for_emotion(emotion, custom_topic): the code is the header
\* lines (the timestamp line left out) followed by the template's code
generate_code_for_emotion(emotion, custom_topic) ==
    LET e        == IF emotion \in DOMAIN TEMPLATES THEN emotion ELSE "neutral"
        template == TEMPLATES[e]
        header   == IF custom_topic # None /\ custom_topic # ""
                    THEN <<"# Generated for topic: ", custom_topic, "# Emotion: ", e>>
                    ELSE <<"# Emotion: ", e>>
    IN  [title |-> template.title, code |-> header \o <<template.code>>]

\* emotion_to_code of code_generator.py
emotion_to_code == [
    happy   |-> "print('Smile bro Karan 2.0! Life is awesome!')",
    sad     |-> "print('Stay strong Karan 2.0, better days are coming!')",
    angry   |-> "print('Take a deep breath Karan 2.0, calm down.')",
    neutral |-> "print('Neutral mood detected.')" ]

\* generate_code(emotion) of code_generator.py
generate_code(emotion) ==
    IF emotion \in DOMAIN emotion_to_code
    THEN emotion_to_code[emotion]
    ELSE "print('Emotion not recognized')"

\* labels handed to a lookup: the enumeration and strings outside it
LookupLabels == Labels \cup {"disgust", "love", "Happy", "", "Not Detected"}

Topics == {None, "", "my day"}

\* the worker of on_detect stores the label the detector returned
StoreDetected ==
    /\ pc = "ready"
    /\ \E e \in Labels : detected_emotion' = e
    /\ UNCHANGED <<pc, globalVars, call, lookup, memoVars, unitVars, workers>>

\* EDCGApp.on_generate: look up the stored label, neutral when none is stored
OnGenerate ==
    /\ pc = "ready"
    /\ \E topic \in Topics \ {None} :
          LET e   == IF detected_emotion = None THEN "neutral" ELSE detected_emotion
              res == generate_code_for_emotion(e, IF topic # "" THEN topic ELSE None)
          IN  lookup' = [fn |-> "on_generate", emotion |-> e,
                         title |-> res.title, code |-> res.code]
    /\ UNCHANGED <<pc, globalVars, call, detected_emotion, memoVars, unitVars, workers>>

\* a call generate_code_for_emotion(emotion, custom_topic)
GenerateCodeForEmotion ==
    /\ pc = "ready"
    /\ \E emotion \in LookupLabels, topic \in Topics :
          LET res == generate_code_for_emotion(emotion, topic)
          IN  lookup' = [fn |-> "generate_code_for_emotion", emotion |-> emotion,
                         title |-> res.title, code |-> res.code]
    /\ UNCHANGED <<pc, globalVars, call, detected_emotion, memoVars, unitVars, workers>>

\* a call generate_code(emotion) of code_generator.py
GenerateCode ==
    /\ pc = "ready"
    /\ \E emotion \in LookupLabels :
          lookup' = [fn |-> "generate_code", emotion |-> emotion,
                     title |-> None, code |-> <<generate_code(emotion)>>]
    /\ UNCHANGED <<pc, globalVars, call, detected_emotion, memoVars, unitVars, workers>>

NextTemplates ==
    \/ ProbeTransformers \/ ProbeTextBlob
    \/ StoreDetected \/ OnGenerate \/ GenerateCodeForEmotion \/ GenerateCode

SpecTemplates == Init /\ [][NextTemplates]_vars

----------------------------------------------------------------------------
(* Properties of the chain, checked under Spec *)

Returned == pc = "returned"

Invoked(c, strategy) == \E i \in 1..Len(c.invoked) : c.invoked[i] = strategy

IsBlank(text) == \A i \in 1..Len(text) : text[i] \in Whitespace

\* C1: detect_emotion is total: whatever the text and whichever strategies are
\* loaded, missing or raising, every call returns one of the six labels; no
\* exception leaves it and it never returns None.
C1_ClassifyTotal == Returned => call.result \in Labels

\* a call in which the transformer raised and TextBlob is not installed
C1_Witness ==
    /\ Returned
    /\ Invoked(call, "transformer_emotion")
    /\ call.mOut.kind = "fault"
    /\ ~HAVE_TEXTBLOB
    /\ ~IsBlank(call.text)
    /\ call.result \in Labels

\* C2: for an empty or all-whitespace text the result is neutral and no
\* strategy is invoked, whichever libraries are loaded.
C2_BlankIsNeutral ==
    (Returned /\ IsBlank(call.text)) =>
        /\ call.result = "neutral"
        /\ call.invoked = <<>>
        /\ call.modelArg = NoArg /\ call.heurArg = NoArg /\ call.lexArg = NoArg

\* a whitespace-only text classified with both libraries loaded
C2_Witness ==
    /\ Returned
    /\ Len(call.text) > 0
    /\ IsBlank(call.text)
    /\ USE_TRANSFORMERS /\ HAVE_TEXTBLOB
    /\ call.result = "neutral"

\* C3: the result is the label of the first strategy, in the order
\* transformer, TextBlob, lexicon, that returned one: a label of the
\* transformer ends the call; TextBlob's label is returned only when the
\* transformer returned none; the lexicon's only when both returned none.
C3_ChainPrecedence ==
    (Returned /\ ~IsBlank(call.text)) =>
        /\ call.modelRet \in Labels =>
               /\ call.result = call.modelRet
               /\ call.invoked = <<"transformer_emotion">>
        /\ Invoked(call, "textblob_sentiment_emotion") =>
               /\ call.modelRet = None
               /\ call.heurRet \in Labels =>
                      /\ call.result = call.heurRet
                      /\ ~Invoked(call, "lexicon_emotion")
        /\ Invoked(call, "lexicon_emotion") =>
               /\ call.modelRet = None
               /\ call.heurRet = None
               /\ call.result = call.lexRet
        /\ call.invoked \in
               { <<"transformer_emotion">>,
                 <<"transformer_emotion", "textblob_sentiment_emotion">>,
                 <<"transformer_emotion", "textblob_sentiment_emotion", "lexicon_emotion">>,
                 <<"transformer_emotion", "lexicon_emotion">>,
                 <<"textblob_sentiment_emotion">>,
                 <<"textblob_sentiment_emotion", "lexicon_emotion">>,
                 <<"lexicon_emotion">> }

\* the transformer says sad for a text the lexicon calls happy, with TextBlob
\* loaded as well
C3_Witness ==
    /\ Returned
    /\ HAVE_TEXTBLOB
    /\ call.modelRet = "sad"
    /\ call.result = "sad"
    /\ lexicon_emotion(Strip(call.text)) = "happy"

\* C4: an exception inside the transformer or the TextBlob strategy is caught
\* there and reported as None; the chain goes on to the next strategy and the
\* call returns a label.
C4_FaultAbsorbed ==
    Returned =>
        /\ (Invoked(call, "transformer_emotion") /\ call.mOut.kind \in {"fault", "nested"}) =>
               /\ call.modelRet = None
               /\ Len(call.invoked) >= 2
               /\ call.invoked[2] = IF call.globals.HAVE_TEXTBLOB
                                    THEN "textblob_sentiment_emotion"
                                    ELSE "lexicon_emotion"
               /\ call.result \in Labels
        /\ (Invoked(call, "textblob_sentiment_emotion") /\ call.bOut.kind = "fault") =>
               /\ call.heurRet = None
               /\ call.invoked[Len(call.invoked)] = "lexicon_emotion"
               /\ call.result = call.lexRet
               /\ call.result \in Labels

\* both libraries raised during one call
C4_Witness ==
    /\ Returned
    /\ call.invoked = <<"transformer_emotion", "textblob_sentiment_emotion", "lexicon_emotion">>
    /\ call.mOut.kind = "fault"
    /\ call.bOut.kind = "fault"
    /\ call.result \in Labels

\* the label mapping as a table over the raw names the model may report
CanonicalOf(raw) ==
    CASE raw = <<"j","o","y">>                     -> "happy"
      [] raw = <<"J","O","Y">>                     -> "happy"
      [] raw = <<"H","a","p","p","y">>             -> "happy"
      [] raw = <<"l","o","v","e">>                 -> "happy"
      [] raw = <<"s","a","d","n","e","s","s">>     -> "sad"
      [] raw = <<"a","n","g","e","r">>             -> "angry"
      [] raw = <<"f","e","a","r">>                 -> "fear"
      [] raw = <<"s","u","r","p","r","i","s","e">> -> "surprise"
      [] OTHER                                     -> "neutral"

\* C7: when the pipeline answers with a ranked list, the transformer strategy
\* returns the canonical label of the top-ranked category: joy and happy (and
\* love) give happy, sadness, anger, fear and surprise their own label, any
\* other category neutral.  Whatever the pipeline does, the strategy returns
\* one of the six labels or None, never a raw category name.
C7_ModelLabelNormalized ==
    (Returned /\ Invoked(call, "transformer_emotion")) =>
        /\ call.modelRet \in Labels \cup {None}
        /\ (call.mOut.kind = "list" /\ Len(call.mOut.out) > 0) =>
               \E top \in 1..Len(call.mOut.out) :
                   /\ \A i \in 1..Len(call.mOut.out) :
                          call.mOut.out[i].score <= call.mOut.out[top].score
                   /\ call.modelRet = CanonicalOf(call.mOut.out[top].label)
        /\ ~(call.mOut.kind = "list" /\ Len(call.mOut.out) > 0) => call.modelRet = None

\* the pipeline ranked an upper-case JOY first
C7_Witness ==
    /\ Returned
    /\ call.mOut.kind = "list"
    /\ Len(call.mOut.out) > 0
    /\ call.mOut.out[1].label = <<"J","O","Y">>
    /\ call.modelRet = "happy"
    /\ call.result = "happy"

\* C10 as stated: the pipeline is handed the first 512 characters of the text
\* given to detect_emotion, and TextBlob and the lexicon are handed that text
\* itself.
C10_ArgsOfEntryText ==
    Returned =>
        /\ call.modelArg # NoArg =>
               call.modelArg = SubSeq(call.text, 1, Min(Len(call.text), MaxModelChars))
        /\ call.heurArg # NoArg => call.heurArg = call.text
        /\ call.lexArg # NoArg => call.lexArg = call.text

\* C10, amended: detect_emotion accepts a text of any length and strips its
\* leading and trailing whitespace; the pipeline is handed at most the first
\* 512 characters of the stripped text, TextBlob and the lexicon the whole
\* stripped text.
C10_ArgsOfStrippedText ==
    Returned =>
        LET stripped == Strip(call.text)
        IN  /\ call.modelArg # NoArg =>
                   /\ Len(call.modelArg) <= MaxModelChars
                   /\ Len(stripped) <= MaxModelChars => call.modelArg = stripped
                   /\ Len(stripped) > MaxModelChars =>
                          call.modelArg = SubSeq(stripped, 1, MaxModelChars)
            /\ call.heurArg # NoArg => call.heurArg = stripped
            /\ call.lexArg # NoArg => call.lexArg = stripped

\* a text longer than 512 characters went through all three strategies
C10_Witness ==
    /\ Returned
    /\ Len(Strip(call.text)) > MaxModelChars
    /\ call.invoked = <<"transformer_emotion", "textblob_sentiment_emotion", "lexicon_emotion">>
    /\ Len(call.modelArg) = MaxModelChars
    /\ Len(call.heurArg) > MaxModelChars
    /\ Len(call.lexArg) > MaxModelChars

----------------------------------------------------------------------------
(* Properties of the TextBlob strategy, checked under SpecHeuristic *)

\* C5: with the analyzer loaded, a polarity above 0.4 gives happy; otherwise a
\* polarity below -0.3 gives sad; otherwise a subjectivity above 0.7 with a
\* polarity strictly between -0.1 and 0.1 gives angry; anything else neutral.
\* Polarity 0.5 gives happy, -0.5 sad, 0.0 with subjectivity 0.9 angry, 0.0
\* with subjectivity 0.2 neutral; fear and surprise are never returned.
C5_HeuristicPolicy ==
    (pc = "heuristic_done" /\ HAVE_TEXTBLOB /\ sentiment.kind = "ok") =>
        LET p == sentiment.p
            s == sentiment.s
        IN  /\ heurRet \in {"happy", "sad", "angry", "neutral"}
            /\ (heurRet = "happy") <=> (p > 40)
            /\ (heurRet = "sad") <=> (p < -30)
            /\ (heurRet = "angry") <=> (p >= -30 /\ p <= 40 /\ s > 70 /\ p > -10 /\ p < 10)
            /\ p = 50 => heurRet = "happy"
            /\ p = -50 => heurRet = "sad"
            /\ (p = 0 /\ s = 90) => heurRet = "angry"
            /\ (p = 0 /\ s = 20) => heurRet = "neutral"

\* polarity 0.0 with subjectivity 0.9 was classified
C5_Witness ==
    /\ pc = "heuristic_done"
    /\ HAVE_TEXTBLOB
    /\ sentiment = BlobOk(0, 90)
    /\ heurRet = "angry"

----------------------------------------------------------------------------
(* Properties of the lexicon strategy, checked under SpecLexicon *)

\* the enumeration order of the labels
EnumOrder == <<"happy", "sad", "angry", "fear", "surprise", "neutral">>

EnumPos(k) == CHOOSE i \in 1..Len(EnumOrder) : EnumOrder[i] = k

\* positions at which w occurs in txt as a substring
Occurrences(txt, w) ==
    {i \in 1..(Len(txt) - Len(w) + 1) : SubSeq(txt, i, i + Len(w) - 1) = w}

\* the number of substring occurrences of w in txt
OccurrenceCount(txt, w) == Cardinality(Occurrences(txt, w))

\* the largest number of occurrences of w in txt no two of which overlap
DisjointCount(txt, w) ==
    LET occ  == Occurrences(txt, w)
        ok(S) == \A i, j \in S : i # j => (i + Len(w) <= j \/ j + Len(w) <= i)
    IN  CHOOSE n \in 0..Cardinality(occ) :
            /\ \E S \in SUBSET occ : ok(S) /\ Cardinality(S) = n
            /\ \A S \in SUBSET occ : ok(S) => Cardinality(S) <= n

RECURSIVE SumOver(_, _, _, _)
SumOver(count(_, _), txt, words, n) ==
    IF n = 0 THEN 0 ELSE SumOver(count, txt, words, n - 1) + count(txt, words[n])

\* the total of a label under a way of counting one keyword
Total(count(_, _), txt, k) == SumOver(count, txt, _SIMPLE_LEXICON[k], Len(_SIMPLE_LEXICON[k]))

\* r is the label the totals select: neutral when all are zero, else the label
\* of highest total that comes first in the enumeration order
Selects(count(_, _), txt, r) ==
    IF \A k \in Labels : Total(count, txt, k) = 0
    THEN r = "neutral"
    ELSE /\ r \in Labels
         /\ \A k \in Labels : Total(count, txt, k) <= Total(count, txt, r)
         /\ \A k \in Labels :
                Total(count, txt, k) = Total(count, txt, r) => EnumPos(r) <= EnumPos(k)

\* str.lower() as a table lookup over the letters the texts use
Folded(text) ==
    [i \in 1..Len(text) |->
        IF \E n \in 1..Len(UpperCase) : UpperCase[n] = text[i]
        THEN LowerCase[CHOOSE n \in 1..Len(UpperCase) : UpperCase[n] = text[i]]
        ELSE text[i]]

\* C6 as stated: each label's total is the number of substring occurrences of
\* its keywords in the lower-cased text; the highest total wins, ties go to
\* the label earliest in the enumeration order, all zero gives neutral.
C6_OccurrenceTotals ==
    pc = "lexicon_done" => Selects(OccurrenceCount, Folded(lexText), lexRet)

\* C6, amended: each label's total is the sum over its keywords of the number
\* of non-overlapping occurrences of the keyword in the lower-cased text;
\* the highest total wins, ties go to the label earliest in the order happy,
\* sad, angry, fear, surprise, neutral, all zero gives neutral; the strategy
\* always returns a label.
C6_DisjointTotals ==
    pc = "lexicon_done" =>
        /\ lexRet \in Labels
        /\ Selects(DisjointCount, Folded(lexText), lexRet)

\* "wowow sad"-like text: wow occurs twice but overlapping, so surprise ties
\* with sad and sad, earlier in the order, wins
C6_Witness ==
    /\ pc = "lexicon_done"
    /\ lexText = <<"w","o","w","o","w","s","a","d">>
    /\ lexRet = "sad"

----------------------------------------------------------------------------
(* Determinism, checked under SpecRepeat *)

\* C8: with the libraries fixed (the same flags and the same answer to the
\* same input), two calls of detect_emotion with the same text return the
\* same label, wherever they stand in a sequence of calls.
C8_Deterministic ==
    \A i, j \in 1..Len(history) :
        history[i].text = history[j].text => history[i].result = history[j].result

\* the same text classified before and after a call in which the pipeline
\* raised on another text
C8_Witness ==
    /\ Len(history) >= 3
    /\ USE_TRANSFORMERS
    /\ history[1].text = history[3].text
    /\ history[2].text # history[1].text
    /\ history[1].result = "happy"
    /\ history[3].result = "happy"
    /\ \E e \in modelMemo : e.out.kind = "fault"

----------------------------------------------------------------------------
(* The template registry, checked under SpecTemplates *)

\* the code line a lookup took from its table
BodyOf(l) == l.code[Len(l.code)]

\* C9: a lookup returns the entry of the label for each of the six labels and
\* the neutral entry for any other string, both through
\* generate_code_for_emotion over TEMPLATES and through generate_code of
\* code_generator.py.
C9_LookupTotal ==
    lookup.fn # "none" =>
        IF lookup.fn = "generate_code"
        THEN /\ lookup.emotion \in Labels =>
                    /\ lookup.emotion \in DOMAIN emotion_to_code
                    /\ BodyOf(lookup) = emotion_to_code[lookup.emotion]
             /\ lookup.emotion \notin Labels => BodyOf(lookup) = emotion_to_code["neutral"]
        ELSE /\ lookup.emotion \in Labels =>
                    /\ lookup.title = TEMPLATES[lookup.emotion].title
                    /\ BodyOf(lookup) = TEMPLATES[lookup.emotion].code
             /\ lookup.emotion \notin Labels =>
                    /\ lookup.title = TEMPLATES["neutral"].title
                    /\ BodyOf(lookup) = TEMPLATES["neutral"].code

----------------------------------------------------------------------------
(* TextBlob shadows the lexicon, checked under Spec *)

\* C12: for a text that is not blank, when the transformer gave no label and
\* TextBlob is loaded and did not raise, the lexicon is not invoked: the
\* result is TextBlob's answer, neutral included, hence one of happy, sad,
\* angry, neutral and never fear or surprise, whatever keywords the text has.
C12_TextBlobShadowsLexicon ==
    ( /\ Returned
      /\ ~IsBlank(call.text)
      /\ call.modelRet = None
      /\ call.globals.HAVE_TEXTBLOB
      /\ call.bOut.kind = "ok" ) =>
        /\ ~Invoked(call, "lexicon_emotion")
        /\ call.lexArg = NoArg
        /\ call.result = call.heurRet
        /\ call.result \in {"happy", "sad", "angry", "neutral"}

\* a text the lexicon calls fear, answered neutral by TextBlob after the
\* transformer raised
C12_Witness ==
    /\ Returned
    /\ call.text = <<"s","c","a","r","e","d">>
    /\ lexicon_emotion(call.text) = "fear"
    /\ Invoked(call, "transformer_emotion")
    /\ call.modelRet = None
    /\ call.bOut.kind = "ok"
    /\ call.heurRet = "neutral"
    /\ call.result = "neutral"

----------------------------------------------------------------------------
(* The module globals, checked under SpecThreads *)

Probing == pc \in {"probe_transformers", "probe_textblob"}

\* C11: the pipeline handle and the two flags are written only by the startup
\* probe, which runs once and sets the handle at most once; no step of a
\* detect_emotion call changes them, however the calls of several worker
\* threads interleave.
C11_GlobalsWrittenOnlyByProbe ==
    [][ /\ ~Probing => /\ USE_TRANSFORMERS' = USE_TRANSFORMERS
                       /\ transformer_pipeline' = transformer_pipeline
                       /\ HAVE_TEXTBLOB' = HAVE_TEXTBLOB
                       /\ ~Probing'
        /\ transformer_pipeline # None => transformer_pipeline' = transformer_pipeline
        /\ pc # "probe_transformers" => /\ USE_TRANSFORMERS' = USE_TRANSFORMERS
                                        /\ pc' # "probe_transformers"
      ]_vars

\* two threads are inside detect_emotion at once, one past a transformer
\* call, and the globals are as the probe left them
C11_Witness ==
    /\ pc = "ready"
    /\ USE_TRANSFORMERS
    /\ transformer_pipeline # None
    /\ \E v, w \in 1..MaxWorkers :
          /\ v # w
          /\ workers[v].pc = "textblob"
          /\ workers[w].pc = "transformer"

====
